---- MODULE Spec2Model ----
(***************************************************************************)
(* Model of the RupeeRoute expense tracker (src/App.tsx and friends).      *)
(*                                                                         *)
(* Encodings                                                               *)
(*   - a JavaScript Date is its time value, counted here in minutes since  *)
(*     1970-01-01T00:00Z (the code never looks below the minute);          *)
(*   - a date string "YYYY-MM-DD" is the number YYYYMMDD, so that the      *)
(*     order of the numbers is the order of the strings; the empty string  *)
(*     of the date filter is NoDate;                                       *)
(*   - an ISO timestamp string is the pair <<YYYYMMDD, minute of UTC day>>;*)
(*   - amounts are whole numbers; the amount of the form is <<>> for the   *)
(*     empty string and <<n>> for the number n;                            *)
(*   - a field that a partial expense lacks holds the falsy value of its   *)
(*     type (NoId, NoDate, "", 0), and null as a picture is "";            *)
(*   - an item of localStorage is absent, empty, unparseable or a JSON     *)
(*     text of a value and a layout.                                       *)
(*                                                                         *)
(* Specifications: Spec (list, filters, reports), SpecView (history table),*)
(* SpecReports (reports), SpecStore (localStorage), SpecForm (expense      *)
(* form), SpecTips (savings tips), SpecScan (image upload), SpecScanFair   *)
(* (the same with its callbacks scheduled), SpecSetters (the setters of    *)
(* one render).                                                            *)
(***************************************************************************)
EXTENDS Integers, Sequences, FiniteSets, TLC

VARIABLES
    expenses,           \* App: useLocalStorage('expenses', [])
    renderedExpenses,   \* the storedValue of the last render, which its handlers hold
    filterCategory,    \* App: useState('All')
    filterDate,         \* App: useState('')
    sortOption,         \* App: useState(SortOption.Latest)
    weeklyTrendData,    \* App: useMemo(..., [expenses])
    isReportModalOpen,  \* App: useState(false)
    report,             \* ReportsModal: useState(null)
    now,                \* the system clock, read by new Date()
    tz,                 \* the time zone of the user's device
    localStorage,       \* window.localStorage: the items under the three keys
    storageWritable,    \* whether localStorage.setItem succeeds (or throws)
    user,               \* App: useLocalStorage('user', DEFAULT_USER)
    theme,              \* App: useLocalStorage('theme', Theme.Light)
    isExpenseModalOpen, \* App: useState(false)
    currentExpense,     \* App: useState(null)
    formData,           \* ExpenseFormModal: useState({...})
    apiKey,             \* geminiService: whether process.env.API_KEY is set
    remoteCalls,        \* how many times ai.models.generateContent was called
    tips,               \* App: useState('')
    isTipsLoading,      \* App: useState(false)
    isTipsModalOpen,    \* App: useState(false)
    tipsRequests,       \* the getSavingTips calls that await the remote model
    isScanning,         \* App: useState(false)
    scanRequest,        \* how far the image upload in progress has come
    alertMessage        \* the message of the last window.alert

\* The state of the expense form.
formVars == <<isExpenseModalOpen, currentExpense, formData>>

\* The state of the tips modal and of its requests.
tipsVars == <<tips, isTipsLoading, isTipsModalOpen, tipsRequests>>

\* The state of the image upload.
scanVars == <<isScanning, scanRequest, alertMessage>>

\* The environment of the build and of the browser.
envVars == <<storageWritable, apiKey>>

vars == <<expenses, renderedExpenses, filterCategory, filterDate, sortOption,
          weeklyTrendData, isReportModalOpen, report, now, tz, localStorage, user,
          theme, formVars, tipsVars, scanVars, envVars, remoteCalls>>

-----------------------------------------------------------------------------
(* Bounds of the model *)

MaxExpenses == 2

\* How many calls of the remote model a behaviour may hold.
MaxRemoteCalls == 2

-----------------------------------------------------------------------------
(* Program constants *)

CATEGORIES == <<"Food", "Transport", "Shopping", "Entertainment", "Health", "Utilities", "Other">>

PAYMENT_METHODS == <<"UPI", "Card", "Cash">>

SortOptionLatest == "latest"

SortOptionAmount == "amount"

NoDate == 0

\* The id of a form that was opened for a new expense: none.
NoId == <<>>

\* currentExpense = null: a record that has none of the fields (each field
\* holds the falsy value that `||` replaces).
NullExpense == [ id |-> NoId, date |-> NoDate, category |-> "", amount |-> 0,
                 description |-> "", paymentMethod |-> "" ]

\* No ExpenseFormModal is mounted.
NoForm == [ date |-> NoDate, category |-> "", amount |-> <<>>,
            description |-> "", paymentMethod |-> "" ]

NoReport == [title |-> <<"none">>, expenses |-> <<>>, present |-> FALSE]

ThemeLight == "light"

ThemeDark == "dark"

\* A profile without a picture has profilePicture: null, here the empty string.
NoPicture == ""

DEFAULT_USER == [name |-> "Guest", profilePicture |-> NoPicture]

-----------------------------------------------------------------------------
(* window.localStorage and JSON.  An item is absent (getItem gives null), or *)
(* the empty string, or a text that JSON.parse rejects, or a JSON text: the  *)
(* value it denotes and its layout (white space), which parsing drops.       *)

Absent == [kind |-> "absent"]

EmptyText == [kind |-> "empty"]

Garbage == [kind |-> "garbage"]

JSONText(v, layout) == [kind |-> "json", value |-> v, layout |-> layout]

\* JSON.stringify(v): the compact text of v.
JSONstringify(v) == JSONText(v, 0)

\* Whether JSON.parse(item) throws.
ParseThrows(item) == item.kind # "json"

\* JSON.parse(item) of a text that parses.
JSONparse(item) == item.value

\* `item ? JSON.parse(item) : initialValue` inside try/catch, the catch giving
\* initialValue: null and the empty string are falsy.
ReadItem(item, initialValue) ==
    IF item.kind \in {"absent", "empty"} THEN initialValue
    ELSE IF ParseThrows(item) THEN initialValue
    ELSE JSONparse(item)

\* useLocalStorage(key, initialValue) at mount: the initial state, and the
\* effect that reads the item once more when it is not JSON.stringify of it.
useLocalStorage_EffectResets(store, key, initialValue) ==
    LET item        == store[key]
        storedValue == ReadItem(item, initialValue)
    IN  IF item # JSONstringify(storedValue)
        THEN initialValue
        ELSE storedValue

useLocalStorage(store, key, initialValue) ==
    LET item        == store[key]
        storedValue == ReadItem(item, initialValue)
    IN  IF item # JSONstringify(storedValue)
        THEN (IF item.kind \in {"absent", "empty"} THEN initialValue
              ELSE IF ParseThrows(item) THEN storedValue
              ELSE JSONparse(item))
        ELSE storedValue

\* localStorage.setItem(key, text) inside try/catch: a store that takes no
\* more data throws, and the catch logs.
setItem(store, writable, key, text) ==
    IF writable THEN [store EXCEPT ![key] = text] ELSE store

\* A browser that never stored anything for the page.
FreshStorage == [expenses |-> Absent, user |-> Absent, theme |-> Absent]

-----------------------------------------------------------------------------
(* The calendar of the JavaScript Date object *)

MinutesPerDay == 1440

\* Day(t) of ECMAScript: the day number of a time value.
Day(t) == t \div MinutesPerDay

\* TimeWithinDay(t) of ECMAScript.
TimeWithinDay(t) == t % MinutesPerDay

\* Days since 1970-01-01 of the civil date y-m-d (m in 1..12, d any integer).
DaysFromCivil(y, m, d) ==
    LET yy  == IF m <= 2 THEN y - 1 ELSE y
        era == yy \div 400
        yoe == yy - era * 400
        mp  == IF m > 2 THEN m - 3 ELSE m + 9
        doy == (153 * mp + 2) \div 5 + d - 1
        doe == yoe * 365 + yoe \div 4 - yoe \div 100 + doy
    IN  era * 146097 + doe - 719468

\* The civil date <<y, m, d>> (m in 1..12) of a day number.
CivilFromDays(z) ==
    LET zz  == z + 719468
        era == zz \div 146097
        doe == zz - era * 146097
        yoe == (doe - doe \div 1460 + doe \div 36524 - doe \div 146096) \div 365
        doy == doe - (365 * yoe + yoe \div 4 - yoe \div 100)
        mp  == (5 * doy + 2) \div 153
        d   == doy - (153 * mp + 2) \div 5 + 1
        m   == IF mp < 10 THEN mp + 3 ELSE mp - 9
        y   == yoe + era * 400 + (IF m <= 2 THEN 1 ELSE 0)
    IN  <<y, m, d>>

\* The civil dates of the days the model can meet (2023-11-01 to
\* 2024-05-31), computed once.
Calendar ==
    [z \in DaysFromCivil(2023, 11, 1)..DaysFromCivil(2024, 5, 31) |-> CivilFromDays(z)]

\* The day numbers of the first days of the months of 2023 and 2024,
\* computed once.
MonthStart == [y \in 2023..2024 |-> [m \in 1..12 |-> DaysFromCivil(y, m, 1)]]

\* YearFromTime, MonthFromTime, DateFromTime of ECMAScript, on a day number.
Civil(z) == Calendar[z]

\* MakeDay(year, month, date) of ECMAScript: month is 0-based and may lie
\* outside 0..11, date may lie outside the month.
MakeDay(year, month, date) ==
    LET ym == year + month \div 12
        mn == month % 12
    IN  MonthStart[ym][mn + 1] + date - 1

\* The string "YYYY-MM-DD" of a civil date.
DateString(c) == c[1] * 10000 + c[2] * 100 + c[3]

\* The civil date a string "YYYY-MM-DD" names.
CivilOfString(s) == <<s \div 10000, (s \div 100) % 100, s % 100>>

\* new Date("YYYY-MM-DD"): a date-only string is parsed as UTC midnight.
ParseDate(s) ==
    LET c == CivilOfString(s)
    IN  DaysFromCivil(c[1], c[2], c[3]) * MinutesPerDay

\* Date.prototype.toISOString: the UTC date and time of the time value.
ToISOString(t) == <<DateString(Civil(Day(t))), TimeWithinDay(t)>>

-----------------------------------------------------------------------------
(* The time zone: a standard offset and at most one daylight-saving change *)

\* A zone is [before, after, at]: the offset from UTC in minutes before and
\* from the instant `at` on.
Zone(before, after, at) == [before |-> before, after |-> after, at |-> at]

\* The offset in force at the instant t.
OffsetAt(z, t) == IF t >= z.at THEN z.after ELSE z.before

\* LocalTime(t) of ECMAScript.
LocalTime(z, t) == t + OffsetAt(z, t)

\* UTC(t) of ECMAScript: a local time in the gap or the overlap of a change
\* is read with the offset before the change.
UTCOfLocal(z, l) ==
    LET hi == IF z.after > z.before THEN z.after ELSE z.before
    IN  IF l >= z.at + hi THEN l - z.after ELSE l - z.before

\* getFullYear, getMonth (0-based), getDate, getDay of a Date.
GetFullYear(z, t) == Civil(Day(LocalTime(z, t)))[1]

GetMonth(z, t) == Civil(Day(LocalTime(z, t)))[2] - 1

GetDate(z, t) == Civil(Day(LocalTime(z, t)))[3]

GetDay(z, t) == (Day(LocalTime(z, t)) + 4) % 7

\* new Date(year, month, date): local midnight of that day.
NewDateYMD(z, year, month, date) ==
    UTCOfLocal(z, MakeDay(year, month, date) * MinutesPerDay)

\* d.setDate(date): same local year, month and time of day, another day.
SetDate(z, t, date) ==
    LET l == LocalTime(z, t)
        c == Civil(Day(l))
    IN  UTCOfLocal(z, MakeDay(c[1], c[2] - 1, date) * MinutesPerDay + TimeWithinDay(l))

\* The calendar date a user in zone z reads on the wall at the instant t.
LocalDateString(z, t) == DateString(Civil(Day(LocalTime(z, t))))

-----------------------------------------------------------------------------
(* Pure functions of src/App.tsx *)

\* getFormattedDate(date): date.toISOString().split('T')[0].
getFormattedDate(t) == ToISOString(t)[1]

\* The comparator of the history table (App.filteredExpenses).
CompareExpenses(sort, a, b) ==
    IF sort = SortOptionAmount
    THEN b.amount - a.amount
    ELSE ParseDate(b.date) - ParseDate(a.date)

\* The comparator of the report (ReportsModal.generateReport).
CompareReport(a, b) == ParseDate(b.date) - ParseDate(a.date)

\* The comparator function handed to sort: the one of the history table
\* under a sort option, or the one of the report.
Comparator(which, a, b) ==
    IF which = "report" THEN CompareReport(a, b) ELSE CompareExpenses(which, a, b)

\* An unstable sort: an element overtakes the elements that compare equal.
RECURSIVE InsertSorted_Unstable(_, _, _)
InsertSorted_Unstable(s, x, which) ==
    IF s = <<>> THEN <<x>>
    ELSE IF Comparator(which, Head(s), x) >= 0 THEN <<x>> \o s
    ELSE <<Head(s)>> \o InsertSorted_Unstable(Tail(s), x, which)

\* Array.prototype.sort with a comparator: a stable sort (ES2019).  Each
\* element in turn goes before the first element that must follow it.
RECURSIVE InsertSorted(_, _, _)
InsertSorted(s, x, which) ==
    IF s = <<>> THEN <<x>>
    ELSE IF Comparator(which, Head(s), x) > 0 THEN <<x>> \o s
    ELSE <<Head(s)>> \o InsertSorted(Tail(s), x, which)

RECURSIVE ArraySort(_, _)
ArraySort(s, which) ==
    IF s = <<>> THEN <<>>
    ELSE InsertSorted(ArraySort(SubSeq(s, 1, Len(s) - 1), which), s[Len(s)], which)

\* The two filter predicates of the history table.
MatchesCategory(e, cat) == cat = "All" \/ e.category = cat

\* The date filter forgotten.
MatchesDate_NoFilter(e, date) == TRUE

MatchesDate(e, date) == date = NoDate \/ e.date = date

\* filteredExpenses: filter by category, filter by date, sort.
FilteredExpenses(L, cat, date, sort) ==
    LET byCategory == SelectSeq(L, LAMBDA e : MatchesCategory(e, cat))
        byDate     == SelectSeq(byCategory, LAMBDA e : MatchesDate(e, date))
    IN  ArraySort(byDate, sort)

\* The running total overwritten instead of increased.
AddToTotals_Overwrite(totals, e) ==
    IF \E i \in 1..Len(totals) : totals[i].name = e.category
    THEN [i \in 1..Len(totals) |->
            IF totals[i].name = e.category
            THEN [name |-> totals[i].name, value |-> e.amount]
            ELSE totals[i]]
    ELSE Append(totals, [name |-> e.category, value |-> e.amount])

\* categoryTotals[e.category] = (categoryTotals[e.category] || 0) + e.amount
\* on an object whose keys keep their insertion order.
AddToTotals(totals, e) ==
    IF \E i \in 1..Len(totals) : totals[i].name = e.category
    THEN [i \in 1..Len(totals) |->
            IF totals[i].name = e.category
            THEN [name |-> totals[i].name, value |-> totals[i].value + e.amount]
            ELSE totals[i]]
    ELSE Append(totals, [name |-> e.category, value |-> e.amount])

\* pieChartData / ReportsModal.pieData: Object.entries of the totals.
RECURSIVE AggregateByCategory(_)
AggregateByCategory(L) ==
    IF L = <<>> THEN <<>>
    ELSE AddToTotals(AggregateByCategory(SubSeq(L, 1, Len(L) - 1)), L[Len(L)])

\* The memoised values of the page, functions of the state.
filteredExpenses == FilteredExpenses(expenses, filterCategory, filterDate, sortOption)

pieChartData == AggregateByCategory(filteredExpenses)

\* The bucket of the day i days before today.
WeekBucket(z, today, i) ==
    LET d == SetDate(z, today, GetDate(z, today) - i)
    IN  [name |-> GetDay(z, d), date |-> ToISOString(d)[1], amount |-> 0]

\* Array.from({length: 7}, ...).reverse(): oldest day first.
Last7Days(z, today) ==
    << WeekBucket(z, today, 6), WeekBucket(z, today, 5), WeekBucket(z, today, 4),
       WeekBucket(z, today, 3), WeekBucket(z, today, 2), WeekBucket(z, today, 1),
       WeekBucket(z, today, 0) >>

\* last7Days.find(d => d.date === expense.date); if (day) day.amount += ...
AddToBuckets(buckets, e) ==
    LET hits == {k \in 1..Len(buckets) : buckets[k].date = e.date}
    IN  IF hits = {} THEN buckets
        ELSE LET first == CHOOSE k \in hits : \A j \in hits : k <= j
             IN  [buckets EXCEPT ![first].amount = @ + e.amount]

RECURSIVE FillBuckets(_, _)
FillBuckets(buckets, L) ==
    IF L = <<>> THEN buckets
    ELSE FillBuckets(AddToBuckets(buckets, Head(L)), Tail(L))

\* weeklyTrendData, computed with the clock reading `today`.
WeeklyTrend(L, z, today) == FillBuckets(Last7Days(z, today), L)

-----------------------------------------------------------------------------
(* ReportsModal.generateReport *)

Periods == {"this-week", "last-week", "this-month", "last-month"}

\* startDate of the switch.
StartDate(period, z, t) ==
    CASE period = "this-month" -> NewDateYMD(z, GetFullYear(z, t), GetMonth(z, t), 1)
      [] period = "last-month" -> NewDateYMD(z, GetFullYear(z, t), GetMonth(z, t) - 1, 1)
      [] period = "this-week"  -> SetDate(z, t, GetDate(z, t) - GetDay(z, t))
      [] period = "last-week"  ->
            LET endDate == SetDate(z, t, GetDate(z, t) - GetDay(z, t) - 1)
            IN  SetDate(z, endDate, GetDate(z, endDate) - 6)

\* endDate of the switch.
EndDate(period, z, t) ==
    CASE period = "this-month" -> t
      [] period = "last-month" -> NewDateYMD(z, GetFullYear(z, t), GetMonth(z, t), 0)
      [] period = "this-week"  -> t
      [] period = "last-week"  -> SetDate(z, t, GetDate(z, t) - GetDay(z, t) - 1)

StartStr(period, z, t) == getFormattedDate(StartDate(period, z, t))

EndStr(period, z, t) == getFormattedDate(EndDate(period, z, t))

\* title: the month is named by its number (0-based, as getMonth).
Title(period, z, t) ==
    CASE period = "this-month" -> <<"Report for", GetMonth(z, t)>>
      [] period = "last-month" -> <<"Report for", GetMonth(z, StartDate(period, z, t))>>
      [] period = "this-week"  -> <<"This Week Report">>
      [] period = "last-week"  -> <<"Last Week Report">>

\* The last day of the range left out.
InPeriod_EndExclusive(e, startStr, endStr) == e.date >= startStr /\ e.date < endStr

\* e.date >= startStr && e.date <= endStr
InPeriod(e, startStr, endStr) == e.date >= startStr /\ e.date <= endStr

\* The expenses of the report: filter on the range, sort by date descending.
ReportExpenses(L, startStr, endStr) ==
    ArraySort(SelectSeq(L, LAMBDA e : InPeriod(e, startStr, endStr)), "report")

-----------------------------------------------------------------------------
(* The environment: clock readings, time zones and what the user types *)

\* The instant y-m-d h:mi UTC.
At(y, m, d, h, mi) == DaysFromCivil(y, m, d) * MinutesPerDay + h * 60 + mi

\* No daylight saving: UTC itself and India (UTC+05:30).
ZoneUTC == Zone(0, 0, 0)

ZoneKolkata == Zone(330, 330, 0)

\* Central Europe: UTC+1, and UTC+2 from 2024-03-31 01:00 UTC on.
ZoneBerlin == Zone(60, 120, At(2024, 3, 31, 1, 0))

Zones == {ZoneUTC, ZoneKolkata, ZoneBerlin}

\* Clock readings: a day in January, the leap day, the middle of March (in
\* India the early morning of 2024-03-15) and the night after the European
\* change to summer time (in Berlin 2024-04-01 01:30).
NowSamples ==
    { At(2024, 1, 10, 12, 0), At(2024, 2, 29, 20, 30),
      At(2024, 3, 14, 20, 30), At(2024, 3, 31, 23, 30) }

\* The date the expense form proposes (getFormattedDate()) and the date
\* daysBack days before it, for each daysBack the user may go back.
InputDates(t, daysBack) == {getFormattedDate(t - k * MinutesPerDay) : k \in daysBack}

InputDescriptions == {"Lunch"}

InputPaymentMethods == {"UPI"}

Ids(L) == {L[i].id : i \in 1..Len(L)}

-----------------------------------------------------------------------------
(* Initial state *)

\* The first render of App in zone z at the instant t, over the store the
\* browser kept, in a build with or without the API key.
Mount(z, t, store, writable, key) ==
    /\ localStorage = store
    /\ storageWritable = writable
    /\ apiKey = key
    /\ expenses = useLocalStorage(store, "expenses", <<>>)
    /\ renderedExpenses = expenses
    /\ user =useLocalStorage(store, "user", DEFAULT_USER)
    /\ theme = useLocalStorage(store, "theme", ThemeLight)
    /\ filterCategory = "All"
    /\ filterDate = NoDate
    /\ sortOption = SortOptionLatest
    /\ now = t
    /\ tz = z
    /\ weeklyTrendData = WeeklyTrend(expenses, z, t)
    /\ isReportModalOpen = FALSE
    /\ report = NoReport
    /\ isExpenseModalOpen = FALSE
    /\ currentExpense = NullExpense
    /\ formData = NoForm
    /\ remoteCalls = 0
    /\ tips = ""
    /\ isTipsLoading = FALSE
    /\ isTipsModalOpen = FALSE
    /\ tipsRequests = {}
    /\ isScanning = FALSE
    /\ scanRequest = "none"
    /\ alertMessage = ""

Init == \E t \in NowSamples, z \in Zones : Mount(z, t, FreshStorage, TRUE, TRUE)

-----------------------------------------------------------------------------
(* Actions.  A modal covers the page, so the handlers of the page run only *)
(* while no modal is open.                                                 *)

\* No modal and no scanning overlay covers the page.
PageActive ==
    /\ ~isReportModalOpen
    /\ ~isExpenseModalOpen
    /\ ~isTipsModalOpen
    /\ ~isScanning

\* setValue of useLocalStorage('expenses', []): the value to store becomes
\* the state and is written to the store.  Where the handlers give a function
\* as the value, setValue applies it to storedValue, which is the list the
\* render that made the handlers holds: renderedExpenses.
setValue(valueToStore) ==
    /\ expenses' = valueToStore
    /\ localStorage' = setItem(localStorage, storageWritable, "expenses", JSONstringify(valueToStore))

\* setExpenses(updater) in the handler of a user's event: setValue, and the
\* render React runs when the handler returns, which binds the new list and
\* recomputes the memo on [expenses] with the clock as it reads then.
setExpenses(newList) ==
    /\ setValue(newList)
    /\ renderedExpenses' = newList
    /\ weeklyTrendData' = WeeklyTrend(newList, tz, now)

\* handleSaveExpense(expenseToSave).  With an id: every stored record of that
\* id is replaced by the submitted one.  Without: a new expense, its id the
\* timestamp of the clock, is put in front (amount || 0 is the amount itself
\* for the numbers the form submits).
handleSaveExpense(expenseToSave) ==
    /\ ~isReportModalOpen
    /\ LET prev == renderedExpenses
       IN  IF expenseToSave.id # NoId
           THEN LET updatedExpense == expenseToSave
                IN  setExpenses([i \in 1..Len(prev) |->
                                   IF prev[i].id = updatedExpense.id THEN updatedExpense
                                   ELSE prev[i]])
           ELSE /\ Len(prev) < MaxExpenses
                /\ LET newExpense ==
                          [ id            |-> ToISOString(now),
                            date          |-> IF expenseToSave.date = NoDate
                                              THEN getFormattedDate(now) ELSE expenseToSave.date,
                            category      |-> IF expenseToSave.category = ""
                                              THEN "Other" ELSE expenseToSave.category,
                            amount        |-> expenseToSave.amount,
                            description   |-> expenseToSave.description,
                            paymentMethod |-> IF expenseToSave.paymentMethod = ""
                                              THEN "UPI" ELSE expenseToSave.paymentMethod ]
                   IN  setExpenses(<<newExpense>> \o prev)
    /\ UNCHANGED <<filterCategory, filterDate, sortOption, isReportModalOpen, report, now, tz>>
    /\ UNCHANGED <<user, theme, tipsVars, scanVars, envVars, remoteCalls>>

\* handleDeleteExpense: window.confirm, then filter.
handleDeleteExpense(id, confirmed) ==
    /\ PageActive
    /\ id \in Ids(renderedExpenses)
    /\ IF confirmed
       THEN LET prev == renderedExpenses
            IN  setExpenses(SelectSeq(prev, LAMBDA e : e.id # id))
       ELSE UNCHANGED <<expenses, renderedExpenses, weeklyTrendData, localStorage>>
    /\ UNCHANGED <<filterCategory, filterDate, sortOption, isReportModalOpen, report, now, tz>>
    /\ UNCHANGED <<user, theme, formVars, tipsVars, scanVars, envVars, remoteCalls>>

setFilterCategory(c) ==
    /\ PageActive
    /\ filterCategory' = c
    /\ UNCHANGED <<expenses, renderedExpenses, filterDate, sortOption, weeklyTrendData, isReportModalOpen, report, now, tz>>
    /\ UNCHANGED <<localStorage, user, theme, formVars, tipsVars, scanVars, envVars, remoteCalls>>

setFilterDate(d) ==
    /\ PageActive
    /\ filterDate' = d
    /\ UNCHANGED <<expenses, renderedExpenses, filterCategory, sortOption, weeklyTrendData, isReportModalOpen, report, now, tz>>
    /\ UNCHANGED <<localStorage, user, theme, formVars, tipsVars, scanVars, envVars, remoteCalls>>

setSortOption(o) ==
    /\ PageActive
    /\ sortOption' = o
    /\ UNCHANGED <<expenses, renderedExpenses, filterCategory, filterDate, weeklyTrendData, isReportModalOpen, report, now, tz>>
    /\ UNCHANGED <<localStorage, user, theme, formVars, tipsVars, scanVars, envVars, remoteCalls>>

\* The report button: ReportsModal mounts with no report.
OpenReportModal ==
    /\ PageActive
    /\ isReportModalOpen' = TRUE
    /\ report' = NoReport
    /\ UNCHANGED <<expenses, renderedExpenses, filterCategory, filterDate, sortOption, weeklyTrendData, now, tz>>
    /\ UNCHANGED <<localStorage, user, theme, formVars, tipsVars, scanVars, envVars, remoteCalls>>

\* generateReport(period): the four buttons show while there is no report.
generateReport(period) ==
    /\ isReportModalOpen
    /\ ~report.present
    /\ report' = [ title    |-> Title(period, tz, now),
                   expenses |-> ReportExpenses(expenses, StartStr(period, tz, now), EndStr(period, tz, now)),
                   present  |-> TRUE ]
    /\ UNCHANGED <<expenses, renderedExpenses, filterCategory, filterDate, sortOption, weeklyTrendData, isReportModalOpen, now, tz>>
    /\ UNCHANGED <<localStorage, user, theme, formVars, tipsVars, scanVars, envVars, remoteCalls>>

\* The Back button: setReport(null).
ReportBack ==
    /\ isReportModalOpen
    /\ report.present
    /\ report' = NoReport
    /\ UNCHANGED <<expenses, renderedExpenses, filterCategory, filterDate, sortOption, weeklyTrendData, isReportModalOpen, now, tz>>
    /\ UNCHANGED <<localStorage, user, theme, formVars, tipsVars, scanVars, envVars, remoteCalls>>

\* handleClose: setReport(null); onClose().
handleClose ==
    /\ isReportModalOpen
    /\ report' = NoReport
    /\ isReportModalOpen' = FALSE
    /\ UNCHANGED <<expenses, renderedExpenses, filterCategory, filterDate, sortOption, weeklyTrendData, now, tz>>
    /\ UNCHANGED <<localStorage, user, theme, formVars, tipsVars, scanVars, envVars, remoteCalls>>

\* setUser(value) and setTheme(value) of useLocalStorage: the state, then the
\* item of the store.
setUser(value) ==
    /\ user' = value
    /\ localStorage' = setItem(localStorage, storageWritable, "user", JSONstringify(value))

setTheme(value) ==
    /\ theme' = value
    /\ localStorage' = setItem(localStorage, storageWritable, "theme", JSONstringify(value))

\* toggleTheme, the button of the header.
toggleTheme ==
    /\ PageActive
    /\ setTheme(IF theme = ThemeLight THEN ThemeDark ELSE ThemeLight)
    /\ UNCHANGED <<expenses, renderedExpenses, filterCategory, filterDate, sortOption, weeklyTrendData,
                   isReportModalOpen, report, now, tz>>
    /\ UNCHANGED <<user, formVars, tipsVars, scanVars, envVars, remoteCalls>>

\* ProfileModal.handleSubmit: onSave({ name, profilePicture: picture }) with
\* the name and the picture of the form, then onClose().
SubmitProfile(names, pictures) ==
    /\ PageActive
    /\ \E n \in names, p \in pictures : setUser([name |-> n, profilePicture |-> p])
    /\ UNCHANGED <<expenses, renderedExpenses, filterCategory, filterDate, sortOption, weeklyTrendData,
                   isReportModalOpen, report, now, tz>>
    /\ UNCHANGED <<theme, formVars, tipsVars, scanVars, envVars, remoteCalls>>

\* Time passes: the clock reads a later instant of the given set.
Tick(instants) ==
    /\ \E t \in instants : t > now /\ now' = t
    /\ UNCHANGED <<expenses, renderedExpenses, filterCategory, filterDate, sortOption, weeklyTrendData, isReportModalOpen, report, tz>>
    /\ UNCHANGED <<localStorage, user, theme, formVars, tipsVars, scanVars, envVars, remoteCalls>>

\* ExpenseFormModal.handleSubmit: the user submits the form, opened for a new
\* expense or for a stored one, whose id the submitted record keeps.
SubmitNew(daysBack, categories, amounts) ==
    \E d \in InputDates(now, daysBack), c \in categories, a \in amounts,
       s \in InputDescriptions, m \in InputPaymentMethods :
        /\ PageActive
        /\ handleSaveExpense([ id |-> NoId, date |-> d, category |-> c, amount |-> a,
                               description |-> s, paymentMethod |-> m ])
        /\ UNCHANGED formVars

SubmitEdit(daysBack, categories, amounts) ==
    \E id \in Ids(expenses), d \in InputDates(now, daysBack), c \in categories, a \in amounts,
       s \in InputDescriptions, m \in InputPaymentMethods :
        /\ PageActive
        /\ handleSaveExpense([ id |-> id, date |-> d, category |-> c, amount |-> a,
                               description |-> s, paymentMethod |-> m ])
        /\ UNCHANGED formVars

ClickDelete == \E id \in Ids(expenses), confirmed \in BOOLEAN : handleDeleteExpense(id, confirmed)

ChooseFilterCategory(categories) == \E c \in {"All"} \cup categories : setFilterCategory(c)

ChooseFilterDate(daysBack) == \E d \in {NoDate} \cup InputDates(now, daysBack) : setFilterDate(d)

ChooseSortOption == \E o \in {SortOptionLatest, SortOptionAmount} : setSortOption(o)

ClickPeriod == \E p \in Periods : generateReport(p)

-----------------------------------------------------------------------------
(* The expense form (ExpenseFormModal)                                     *)

\* The state of the form when it mounts at the instant t: each field of
\* initialData, or its default where the field is missing or falsy.
InitialFormData(initialData, t) ==
    [ date          |-> IF initialData.date = NoDate THEN getFormattedDate(t) ELSE initialData.date,
      category      |-> IF initialData.category = "" THEN CATEGORIES[1] ELSE initialData.category,
      amount        |-> IF initialData.amount = 0 THEN <<>> ELSE <<initialData.amount>>,
      description   |-> initialData.description,
      paymentMethod |-> IF initialData.paymentMethod = "" THEN "UPI" ELSE initialData.paymentMethod ]

\* The number of days of a month.
DaysInMonth(y, m) ==
    IF m = 12 THEN 31 ELSE DaysFromCivil(y, m + 1, 1) - DaysFromCivil(y, m, 1)

\* Whether a string of the form YYYY-MM-DD is a valid date string of HTML: a
\* date input shows any other value as the empty string.
IsValidDateString(s) ==
    LET c == CivilOfString(s)
    IN  /\ c[1] >= 1
        /\ c[2] \in 1..12
        /\ c[3] >= 1
        /\ c[3] <= DaysInMonth(c[1], c[2])

\* Number(formData.amount): the empty string is 0.
Number(amount) == IF amount = <<>> THEN 0 ELSE amount[1]

\* The constraint validation of the browser, without which the form does not
\* fire its submit event: the date, the amount and the description are
\* required, the amount has min="0.01" (and step="0.01", which every whole
\* number meets).  The two selects always show one of their options.
FormValid_NoMin(fd) ==
    /\ fd.date # NoDate
    /\ IsValidDateString(fd.date)
    /\ fd.amount # <<>>
    /\ fd.description # ""

FormValid(fd) ==
    /\ fd.date # NoDate
    /\ IsValidDateString(fd.date)
    /\ fd.amount # <<>>
    /\ fd.amount[1] >= 1
    /\ fd.description # ""

\* openExpenseModal(expense), and the form mounted by the render that follows.
openExpenseModal(expense) ==
    /\ currentExpense' = expense
    /\ isExpenseModalOpen' = TRUE
    /\ formData' = InitialFormData(expense, now)

\* closeExpenseModal, and the form unmounted.
closeExpenseModal ==
    /\ isExpenseModalOpen' = FALSE
    /\ currentExpense' = NullExpense
    /\ formData' = NoForm

\* The button "Add Expense" of the page.
ClickAddExpense ==
    /\ PageActive
    /\ openExpenseModal(NullExpense)
    /\ UNCHANGED <<expenses, renderedExpenses, filterCategory, filterDate, sortOption, weeklyTrendData,
                   isReportModalOpen, report, now, tz>>
    /\ UNCHANGED <<localStorage, user, theme, tipsVars, scanVars, envVars, remoteCalls>>

\* The edit button of a row of the history table: onEdit(e).  The table shows
\* the filtered list.
ClickEdit ==
    /\ PageActive
    /\ \E i \in 1..Len(filteredExpenses) : openExpenseModal(filteredExpenses[i])
    /\ UNCHANGED <<expenses, renderedExpenses, filterCategory, filterDate, sortOption, weeklyTrendData,
                   isReportModalOpen, report, now, tz>>
    /\ UNCHANGED <<localStorage, user, theme, tipsVars, scanVars, envVars, remoteCalls>>

\* The Cancel button and the cross of the form.
CancelForm ==
    /\ isExpenseModalOpen
    /\ closeExpenseModal
    /\ UNCHANGED <<expenses, renderedExpenses, filterCategory, filterDate, sortOption, weeklyTrendData,
                   isReportModalOpen, report, now, tz>>
    /\ UNCHANGED <<localStorage, user, theme, tipsVars, scanVars, envVars, remoteCalls>>

\* parseFloat of the text of a number input, which is empty or a number.
parseFloat(text) == text[1]

\* ExpenseFormModal.handleChange: the amount is parseFloat(value), or the
\* empty string for an empty value; every other field is the value itself.
handleChange(name, value) ==
    /\ isExpenseModalOpen
    /\ formData' = [formData EXCEPT ![name] =
                        IF name = "amount"
                        THEN (IF value = <<>> THEN <<>> ELSE <<parseFloat(value)>>)
                        ELSE value]
    /\ UNCHANGED <<isExpenseModalOpen, currentExpense>>
    /\ UNCHANGED <<expenses, renderedExpenses, filterCategory, filterDate, sortOption, weeklyTrendData,
                   isReportModalOpen, report, now, tz>>
    /\ UNCHANGED <<localStorage, user, theme, tipsVars, scanVars, envVars, remoteCalls>>

\* The user changes one field of the form: one of the given changes, each
\* the name of a field and the value of its input.
ChangeField(changes) == \E c \in changes : handleChange(c.name, c.value)

\* ExpenseFormModal.handleSubmit, which the browser calls for a valid form
\* only: { ...initialData, ...formData, amount: Number(formData.amount) } is
\* saved and the form closed.  A click on the button of an invalid form
\* shows the message of the field and changes nothing.
handleSubmit ==
    /\ isExpenseModalOpen
    /\ IF FormValid(formData)
       THEN /\ handleSaveExpense([ id            |-> currentExpense.id,
                                   date          |-> formData.date,
                                   category      |-> formData.category,
                                   amount        |-> Number(formData.amount),
                                   description   |-> formData.description,
                                   paymentMethod |-> formData.paymentMethod ])
            /\ closeExpenseModal
       ELSE UNCHANGED vars

-----------------------------------------------------------------------------
(* The Gemini gateway (services/geminiService) and the image upload        *)

TipsUnavailable == "Smart suggestions are currently unavailable. Please configure your Gemini API key."

TipsNoExpenses == "No expenses recorded yet. Add some expenses to get personalized savings tips!"

TipsApology == "Sorry, I couldn't generate savings tips at the moment. Please try again later."

ExtractUnavailable == "API_KEY environment variable not set. Smart features are not available."

ExtractFailed == "Could not analyze the image. Please try again or enter the details manually."

ReadFailed == "Failed to read file."

\* The message of the TypeError of (null).split(',').
SplitOfNull == "Cannot read properties of null (reading 'split')"

\* The strings the remote model may give as a date: tuples of characters.
Digits == {"0", "1", "2", "3", "4", "5", "6", "7", "8", "9"}

DigitValue ==
    ("0" :> 0) @@ ("1" :> 1) @@ ("2" :> 2) @@ ("3" :> 3) @@ ("4" :> 4) @@
    ("5" :> 5) @@ ("6" :> 6) @@ ("7" :> 7) @@ ("8" :> 8) @@ ("9" :> 9)

\* /^\d{4}-\d{2}-\d{2}$/.test(chars)
DateRegexTest(chars) ==
    /\ Len(chars) = 10
    /\ \A i \in {1, 2, 3, 4, 6, 7, 9, 10} : chars[i] \in Digits
    /\ chars[5] = "-"
    /\ chars[8] = "-"

\* The date string (a number YYYYMMDD) that is a tuple of characters which
\* passes the test.
DateOfChars(chars) ==
    LET v(i) == DigitValue[chars[i]]
    IN  (v(1) * 1000 + v(2) * 100 + v(3) * 10 + v(4)) * 10000
        + (v(6) * 10 + v(7)) * 100 + v(9) * 10 + v(10)

\* What generateContent comes to: the call fails, or the text of the response
\* is no JSON, or it is the JSON null, or a JSON object.
RemoteError == [kind |-> "error"]

ResponseNoJSON == [kind |-> "nojson"]

ResponseNull == [kind |-> "null"]

ResponseObject(data) == [kind |-> "object", data |-> data]

\* extractExpenseFromImage after the remote call, at the instant t: the
\* record it returns, or the error it throws.
ExtractResult_KeepCategory(outcome, categories, t) ==
    IF outcome.kind # "object"
    THEN [ok |-> FALSE, message |-> ExtractFailed]
    ELSE LET extractedData == outcome.data
         IN  [ ok    |-> TRUE,
               value |-> [ id            |-> NoId,
                           date          |-> IF DateRegexTest(extractedData.date)
                                             THEN DateOfChars(extractedData.date)
                                             ELSE ToISOString(t)[1],
                           category      |-> extractedData.category,
                           amount        |-> extractedData.amount,
                           description   |-> extractedData.description,
                           paymentMethod |-> IF \E i \in 1..Len(PAYMENT_METHODS) :
                                                   PAYMENT_METHODS[i] = extractedData.paymentMethod
                                             THEN extractedData.paymentMethod
                                             ELSE "UPI" ] ]

ExtractResult(outcome, categories, t) ==
    IF outcome.kind # "object"
    THEN [ok |-> FALSE, message |-> ExtractFailed]
    ELSE LET extractedData == outcome.data
         IN  [ ok    |-> TRUE,
               value |-> [ id            |-> NoId,
                           date          |-> IF DateRegexTest(extractedData.date)
                                             THEN DateOfChars(extractedData.date)
                                             ELSE ToISOString(t)[1],
                           category      |-> IF \E i \in 1..Len(categories) :
                                                   categories[i] = extractedData.category
                                             THEN extractedData.category
                                             ELSE "Other",
                           amount        |-> extractedData.amount,
                           description   |-> extractedData.description,
                           paymentMethod |-> IF \E i \in 1..Len(PAYMENT_METHODS) :
                                                   PAYMENT_METHODS[i] = extractedData.paymentMethod
                                             THEN extractedData.paymentMethod
                                             ELSE "UPI" ] ]

\* handleImageUpload: without a file nothing happens; with one the overlay
\* shows and the reader starts.
handleImageUpload(hasFile) ==
    /\ PageActive
    /\ remoteCalls < MaxRemoteCalls
    /\ IF hasFile
       THEN /\ isScanning' = TRUE
            /\ scanRequest' = "reading"
       ELSE UNCHANGED <<isScanning, scanRequest>>
    /\ UNCHANGED <<expenses, renderedExpenses, filterCategory, filterDate, sortOption, weeklyTrendData,
                   isReportModalOpen, report, now, tz>>
    /\ UNCHANGED <<localStorage, user, theme, formVars, tipsVars, alertMessage, envVars, remoteCalls>>

ChooseFile == \E hasFile \in BOOLEAN : handleImageUpload(hasFile)

\* The reader is done.  The file could not be read: reader.onerror alerts and
\* clears the overlay, then reader.onloadend runs with reader.result = null,
\* and its catch alerts the TypeError.  The file was read: onloadend calls
\* extractExpenseFromImage, which throws at once without an API key and
\* otherwise calls the remote model.
ReaderDone_KeepsOverlay(readOk) ==
    /\ scanRequest = "reading"
    /\ IF ~readOk
       THEN /\ alertMessage' = ReadFailed
            /\ scanRequest' = "none"
            /\ UNCHANGED <<isScanning, remoteCalls>>
       ELSE IF ~apiKey
       THEN /\ alertMessage' = ExtractUnavailable
            /\ isScanning' = FALSE
            /\ scanRequest' = "none"
            /\ UNCHANGED remoteCalls
       ELSE /\ remoteCalls' = remoteCalls + 1
            /\ scanRequest' = "extracting"
            /\ UNCHANGED <<isScanning, alertMessage>>
    /\ UNCHANGED <<expenses, renderedExpenses, filterCategory, filterDate, sortOption, weeklyTrendData,
                   isReportModalOpen, report, now, tz>>
    /\ UNCHANGED <<localStorage, user, theme, formVars, tipsVars, envVars>>

ReaderDone(readOk) ==
    /\ scanRequest = "reading"
    /\ IF ~readOk
       THEN /\ alertMessage' = SplitOfNull
            /\ isScanning' = FALSE
            /\ scanRequest' = "none"
            /\ UNCHANGED remoteCalls
       ELSE IF ~apiKey
       THEN /\ alertMessage' = ExtractUnavailable
            /\ isScanning' = FALSE
            /\ scanRequest' = "none"
            /\ UNCHANGED remoteCalls
       ELSE /\ remoteCalls' = remoteCalls + 1
            /\ scanRequest' = "extracting"
            /\ UNCHANGED <<isScanning, alertMessage>>
    /\ UNCHANGED <<expenses, renderedExpenses, filterCategory, filterDate, sortOption, weeklyTrendData,
                   isReportModalOpen, report, now, tz>>
    /\ UNCHANGED <<localStorage, user, theme, formVars, tipsVars, envVars>>

ReaderEnds == \E readOk \in BOOLEAN : ReaderDone(readOk)

\* The remote call of extractExpenseFromImage is over: the form opens with
\* the extracted record, or the error is alerted; then the overlay clears.
ExtractDone_OpensForm(outcome) ==
    /\ scanRequest = "extracting"
    /\ LET result == ExtractResult(outcome, CATEGORIES, now)
       IN  IF result.ok
           THEN /\ openExpenseModal(result.value)
                /\ UNCHANGED alertMessage
           ELSE /\ alertMessage' = result.message
                /\ openExpenseModal(NullExpense)
    /\ isScanning' = FALSE
    /\ scanRequest' = "none"
    /\ UNCHANGED <<expenses, renderedExpenses, filterCategory, filterDate, sortOption, weeklyTrendData,
                   isReportModalOpen, report, now, tz>>
    /\ UNCHANGED <<localStorage, user, theme, tipsVars, envVars, remoteCalls>>

ExtractDone(outcome) ==
    /\ scanRequest = "extracting"
    /\ LET result == ExtractResult(outcome, CATEGORIES, now)
       IN  IF result.ok
           THEN /\ openExpenseModal(result.value)
                /\ UNCHANGED alertMessage
           ELSE /\ alertMessage' = result.message
                /\ UNCHANGED formVars
    /\ isScanning' = FALSE
    /\ scanRequest' = "none"
    /\ UNCHANGED <<expenses, renderedExpenses, filterCategory, filterDate, sortOption, weeklyTrendData,
                   isReportModalOpen, report, now, tz>>
    /\ UNCHANGED <<localStorage, user, theme, tipsVars, envVars, remoteCalls>>

ExtractEnds(outcomes) == \E outcome \in outcomes : ExtractDone(outcome)

-----------------------------------------------------------------------------
(* The savings tips (getSavingTips, handleGenerateTips, TipsModal)          *)

\* The response of the remote model with the given text.
ResponseText(text) == [kind |-> "text", text |-> text]

\* The expenses of the current month that handleGenerateTips hands over: the
\* local month and year of new Date(e.date) are those of today.
MonthlyExpenses(L, z, today) ==
    SelectSeq(L, LAMBDA e :
        /\ GetMonth(z, ParseDate(e.date)) = GetMonth(z, today)
        /\ GetFullYear(z, ParseDate(e.date)) = GetFullYear(z, today))

\* getSavingTips up to its remote call: the text it returns at once, or the
\* call of the remote model.
getSavingTips_EmptyFirst(key, list) ==
    IF list = <<>> THEN [remote |-> FALSE, rejected |-> FALSE, value |-> TipsNoExpenses]
    ELSE IF ~key THEN [remote |-> FALSE, rejected |-> FALSE, value |-> TipsUnavailable]
    ELSE [remote |-> TRUE, rejected |-> FALSE, value |-> ""]

getSavingTips(key, list) ==
    IF ~key THEN [remote |-> FALSE, rejected |-> FALSE, value |-> TipsUnavailable]
    ELSE IF list = <<>> THEN [remote |-> FALSE, rejected |-> FALSE, value |-> TipsNoExpenses]
    ELSE [remote |-> TRUE, rejected |-> FALSE, value |-> ""]

\* getSavingTips after its remote call: response.text, or the apology of the
\* catch.
getSavingTipsAfter(outcome) ==
    IF outcome.kind = "error"
    THEN [rejected |-> FALSE, value |-> TipsApology]
    ELSE [rejected |-> FALSE, value |-> outcome.text]

\* handleGenerateTips up to its await, and beyond it when getSavingTips
\* returns without a remote call: the continuation then runs before any
\* other event.
handleGenerateTips ==
    /\ PageActive
    /\ remoteCalls < MaxRemoteCalls
    /\ isTipsModalOpen' = TRUE
    /\ LET result == getSavingTips(apiKey, MonthlyExpenses(expenses, tz, now))
       IN  IF result.remote
           THEN /\ remoteCalls' = remoteCalls + 1
                /\ tipsRequests' = tipsRequests \cup {remoteCalls + 1}
                /\ isTipsLoading' = TRUE
                /\ UNCHANGED tips
           ELSE /\ tips' = result.value
                /\ isTipsLoading' = FALSE
                /\ UNCHANGED <<remoteCalls, tipsRequests>>
    /\ UNCHANGED <<expenses, renderedExpenses, filterCategory, filterDate, sortOption, weeklyTrendData,
                   isReportModalOpen, report, now, tz>>
    /\ UNCHANGED <<localStorage, user, theme, formVars, scanVars, envVars>>

\* The remote call of request n is over: handleGenerateTips goes on behind
\* its await with setTips(result) and setIsTipsLoading(false); had the
\* promise been rejected, neither would run.
TipsDone(n, outcome) ==
    /\ n \in tipsRequests
    /\ tipsRequests' = tipsRequests \ {n}
    /\ LET result == getSavingTipsAfter(outcome)
       IN  IF result.rejected
           THEN UNCHANGED <<tips, isTipsLoading>>
           ELSE /\ tips' = result.value
                /\ isTipsLoading' = FALSE
    /\ UNCHANGED isTipsModalOpen
    /\ UNCHANGED <<expenses, renderedExpenses, filterCategory, filterDate, sortOption, weeklyTrendData,
                   isReportModalOpen, report, now, tz>>
    /\ UNCHANGED <<localStorage, user, theme, formVars, scanVars, envVars, remoteCalls>>

TipsEnds(outcomes) == \E n \in tipsRequests, outcome \in outcomes : TipsDone(n, outcome)

\* The cross of the tips modal: setIsTipsModalOpen(false).
CloseTipsModal ==
    /\ isTipsModalOpen
    /\ isTipsModalOpen' = FALSE
    /\ UNCHANGED <<tips, isTipsLoading, tipsRequests>>
    /\ UNCHANGED <<expenses, renderedExpenses, filterCategory, filterDate, sortOption, weeklyTrendData,
                   isReportModalOpen, report, now, tz>>
    /\ UNCHANGED <<localStorage, user, theme, formVars, scanVars, envVars, remoteCalls>>

-----------------------------------------------------------------------------
(* The list, the filters and the reports: any zone, any clock reading *)

Next ==
    \/ SubmitNew({0}, {"Food"}, {100})
    \/ SubmitEdit({0}, {"Food"}, {100})
    \/ ClickDelete
    \/ ChooseFilterCategory({"Food"})
    \/ ChooseFilterDate({0})
    \/ ChooseSortOption
    \/ OpenReportModal
    \/ ClickPeriod
    \/ ReportBack
    \/ handleClose
    \/ Tick(NowSamples)

Spec == Init /\ [][Next]_vars

-----------------------------------------------------------------------------
(* The history table: one zone, a clock that moves by minutes, and expenses *)
(* that differ in date, category and amount                                *)

ViewInstants == {At(2024, 3, 14, 20, 30), At(2024, 3, 14, 20, 31)}

InitView ==
    /\ Init
    /\ tz = ZoneKolkata
    /\ now = At(2024, 3, 14, 20, 30)

NextView ==
    \/ SubmitNew({0, 8}, {"Food", "Transport"}, {50, 100})
    \/ SubmitEdit({0, 8}, {"Food", "Transport"}, {50, 100})
    \/ ClickDelete
    \/ ChooseFilterCategory({"Food", "Transport"})
    \/ ChooseFilterDate({0, 8})
    \/ ChooseSortOption
    \/ Tick(ViewInstants)

SpecView == InitView /\ [][NextView]_vars

-----------------------------------------------------------------------------
(* The reports: every zone, the leap day and a day two weeks later         *)

ReportInstants == {At(2024, 2, 29, 20, 30), At(2024, 3, 14, 20, 30)}

InitReports ==
    /\ Init
    /\ now = At(2024, 2, 29, 20, 30)

NextReports ==
    \/ SubmitNew({0, 8}, {"Food"}, {100})
    \/ SubmitEdit({0, 8}, {"Food"}, {100})
    \/ ClickDelete
    \/ OpenReportModal
    \/ ClickPeriod
    \/ ReportBack
    \/ handleClose
    \/ Tick(ReportInstants)

SpecReports == InitReports /\ [][NextReports]_vars

-----------------------------------------------------------------------------
(* The store: what the browser kept from earlier visits, a store that takes *)
(* data or throws, and the three records written by their setters          *)

\* An expense list, a profile and a theme that an earlier visit stored.
StoredExpense ==
    [ id |-> <<20240105, 600>>, date |-> 20240105, category |-> "Food", amount |-> 40,
      description |-> "Lunch", paymentMethod |-> "UPI" ]

StoredUser == [name |-> "Asha", profilePicture |-> "data:image/png"]

\* The items the browser may hold under the three keys when the page loads.
StoredItems ==
    [ expenses : {Absent, EmptyText, Garbage, JSONText(<<StoredExpense>>, 1)},
      user     : {Absent, Garbage, JSONText(StoredUser, 0)},
      theme    : {Absent, Garbage, JSONText(ThemeDark, 1)} ]

StoreInstants == {At(2024, 1, 10, 12, 0), At(2024, 1, 10, 12, 1)}

InitStore ==
    \E store \in StoredItems, writable \in BOOLEAN :
        Mount(ZoneUTC, At(2024, 1, 10, 12, 0), store, writable, TRUE)

NextStore ==
    \/ SubmitNew({0}, {"Food"}, {100})
    \/ SubmitEdit({0}, {"Transport"}, {100})
    \/ ClickDelete
    \/ toggleTheme
    \/ SubmitProfile({"Asha"}, {NoPicture})
    \/ Tick(StoreInstants)

SpecStore == InitStore /\ [][NextStore]_vars

-----------------------------------------------------------------------------
(* The expense form: opened for a new expense, for a stored one or with the *)
(* record extracted from an image, changed field by field and submitted    *)

\* What the user may do to a field at the instant t: clear the date or pick
\* today, clear the amount or type 0 or 75, type a description.
FormChanges(t) ==
    {[name |-> "date", value |-> d] : d \in {NoDate} \cup InputDates(t, {0})}
    \cup {[name |-> "amount", value |-> a] : a \in {<<>>, <<0>>, <<75>>}}
    \cup {[name |-> "description", value |-> "Tea"]}

\* Two answers of the remote model: a receipt read well, and one with a date
\* that is no date, an unknown category, an unknown payment method, a
\* negative amount and no description.
GoodReceipt ==
    ResponseObject([ date          |-> <<"2", "0", "2", "4", "-", "0", "1", "-", "0", "5">>,
                     category      |-> "Food",
                     amount        |-> 75,
                     description   |-> "Tea",
                     paymentMethod |-> "Card" ])

BadReceipt ==
    ResponseObject([ date          |-> <<"2", "0", "2", "4", "-", "1", "3", "-", "4", "5">>,
                     category      |-> "Groceries",
                     amount        |-> 0 - 5,
                     description   |-> "",
                     paymentMethod |-> "Cheque" ])

InitForm == Mount(ZoneUTC, At(2024, 1, 10, 12, 0), FreshStorage, TRUE, TRUE)

NextForm ==
    \/ ClickAddExpense
    \/ ClickEdit
    \/ CancelForm
    \/ ChangeField(FormChanges(now))
    \/ handleSubmit
    \/ ClickDelete
    \/ ChooseFile
    \/ ReaderEnds
    \/ ExtractEnds({GoodReceipt, BadReceipt, RemoteError})

SpecForm == InitForm /\ [][NextForm]_vars

-----------------------------------------------------------------------------
(* The tips: a build with or without the API key, expenses of this month   *)
(* and of an earlier one, requests that end in any order                   *)

\* What a remote call for tips may come to.
TipsOutcomes == {RemoteError, ResponseText("Cook at home."), ResponseText("Take the bus.")}

InitTips ==
    \E key \in BOOLEAN : Mount(ZoneUTC, At(2024, 1, 10, 12, 0), FreshStorage, TRUE, key)

NextTips ==
    \/ SubmitNew({0, 40}, {"Food"}, {100})
    \/ ClickDelete
    \/ handleGenerateTips
    \/ TipsEnds(TipsOutcomes)
    \/ CloseTipsModal

SpecTips == InitTips /\ [][NextTips]_vars

-----------------------------------------------------------------------------
(* The image upload: a build with or without the API key, files that can   *)
(* be read or not, and every kind of answer of the remote model            *)

\* The dates, categories, payment methods and amounts of the answers: valid
\* ones, a date in another format, a date of the right format that names no
\* day, a missing date, an unknown and a missing category, an unknown
\* payment method, a negative amount.
ScanDates ==
    { <<"2", "0", "2", "4", "-", "0", "1", "-", "1", "5">>,
      <<"1", "5", "-", "0", "1", "-", "2", "0", "2", "4">>,
      <<"2", "0", "2", "4", "-", "1", "3", "-", "4", "5">>,
      <<>> }

ScanCategories == {"Food", "Groceries", ""}

ScanPaymentMethods == {"Card", "Cheque"}

ScanAmounts == {250, 0 - 5}

ScanOutcomes ==
    {RemoteError, ResponseNoJSON, ResponseNull}
    \cup { ResponseObject([ date |-> d, category |-> c, amount |-> a,
                            description |-> "Receipt", paymentMethod |-> m ]) :
             d \in ScanDates, c \in ScanCategories, a \in ScanAmounts, m \in ScanPaymentMethods }

InitScan ==
    \E key \in BOOLEAN : Mount(ZoneKolkata, At(2024, 3, 14, 20, 30), FreshStorage, TRUE, key)

NextScan ==
    \/ SubmitNew({0}, {"Food"}, {100})
    \/ ChooseFile
    \/ ReaderEnds
    \/ ExtractEnds(ScanOutcomes)
    \/ CancelForm

SpecScan == InitScan /\ [][NextScan]_vars

\* The image upload with its callbacks scheduled: the FileReader started by
\* readAsDataURL ends with loadend, read or not, and the request to the
\* remote model settles, fulfilled or rejected.
SpecScanFair ==
    /\ SpecScan
    /\ WF_vars(ReaderEnds)
    /\ WF_vars(ExtractEnds(ScanOutcomes))

-----------------------------------------------------------------------------
(* The setters of one render: handleSaveExpense and handleDeleteExpense     *)
(* called through the props of the render on screen, once or again before  *)
(* React has rendered the list of an earlier call                          *)

\* handleSaveExpense(expenseToSave) called, the render still to come: its
\* updater gets the list of the render on screen.
SaveCall(expenseToSave) ==
    /\ LET prev == renderedExpenses
       IN  IF expenseToSave.id # NoId
           THEN LET updatedExpense == expenseToSave
                IN  setValue([i \in 1..Len(prev) |->
                                IF prev[i].id = updatedExpense.id THEN updatedExpense
                                ELSE prev[i]])
           ELSE /\ Len(prev) < MaxExpenses
                /\ LET newExpense ==
                          [ id            |-> ToISOString(now),
                            date          |-> IF expenseToSave.date = NoDate
                                              THEN getFormattedDate(now) ELSE expenseToSave.date,
                            category      |-> IF expenseToSave.category = ""
                                              THEN "Other" ELSE expenseToSave.category,
                            amount        |-> expenseToSave.amount,
                            description   |-> expenseToSave.description,
                            paymentMethod |-> IF expenseToSave.paymentMethod = ""
                                              THEN "UPI" ELSE expenseToSave.paymentMethod ]
                   IN  setValue(<<newExpense>> \o prev)
    /\ UNCHANGED <<renderedExpenses, weeklyTrendData, filterCategory, filterDate, sortOption,
                   isReportModalOpen, report, now, tz>>
    /\ UNCHANGED <<user, theme, formVars, tipsVars, scanVars, envVars, remoteCalls>>

\* handleDeleteExpense(id) called and confirmed, the render still to come.
DeleteCall(id) ==
    /\ id \in Ids(renderedExpenses)
    /\ LET prev == renderedExpenses
       IN  setValue(SelectSeq(prev, LAMBDA e : e.id # id))
    /\ UNCHANGED <<renderedExpenses, weeklyTrendData, filterCategory, filterDate, sortOption,
                   isReportModalOpen, report, now, tz>>
    /\ UNCHANGED <<user, theme, formVars, tipsVars, scanVars, envVars, remoteCalls>>

\* React renders App with the state the setters left: the handlers of the
\* new render hold the new list, and the memo on [expenses] is recomputed.
Render ==
    /\ renderedExpenses # expenses
    /\ renderedExpenses' = expenses
    /\ weeklyTrendData' = WeeklyTrend(expenses, tz, now)
    /\ UNCHANGED <<expenses, filterCategory, filterDate, sortOption, isReportModalOpen,
                   report, now, tz>>
    /\ UNCHANGED <<localStorage, user, theme, formVars, tipsVars, scanVars, envVars, remoteCalls>>

\* The form submits a new expense or a stored one with its id kept; the
\* table deletes a stored one.
NextSetters ==
    \/ \E id \in {NoId} \cup Ids(renderedExpenses), d \in InputDates(now, {0}),
          a \in {40, 100, 250}, s \in InputDescriptions, m \in InputPaymentMethods :
           SaveCall([ id |-> id, date |-> d, category |-> "Food", amount |-> a,
                      description |-> s, paymentMethod |-> m ])
    \/ \E id \in Ids(renderedExpenses) : DeleteCall(id)
    \/ Render
    \/ Tick(StoreInstants)

\* The page mounted over an empty store that takes data.
SpecSetters ==
    /\ Mount(ZoneUTC, At(2024, 1, 10, 12, 0), FreshStorage, TRUE, TRUE)
    /\ [][NextSetters]_vars

-----------------------------------------------------------------------------
(* Vocabulary of the properties *)

\* How often the record r occurs in the sequence s.
Count(s, r) == Cardinality({i \in 1..Len(s) : s[i] = r})

\* The sum of the amounts of a sequence of expenses.
RECURSIVE SumAmounts(_)
SumAmounts(s) == IF s = <<>> THEN 0 ELSE Head(s).amount + SumAmounts(Tail(s))

\* The sum of the values of a sequence of category totals.
RECURSIVE SumValues(_)
SumValues(s) == IF s = <<>> THEN 0 ELSE Head(s).value + SumValues(Tail(s))

\* The place of the first expense of category c in s.
FirstOccurrence(s, c) ==
    CHOOSE i \in 1..Len(s) : s[i].category = c /\ \A j \in 1..(i - 1) : s[j].category # c

\* The local calendar day (a day number) of the instant t in zone z.
LocalDay(z, t) == Day(LocalTime(z, t))

\* The date string of a day number.
DayString(d) == DateString(CivilFromDays(d))

\* The day number of a date string.
DayOfString(s) == DaysFromCivil(s \div 10000, (s \div 100) % 100, s % 100)

-----------------------------------------------------------------------------
(* Properties of the history table, checked under SpecView *)

\* C1: the filtered view holds exactly the stored expenses that pass the
\* category filter and the date filter: each record occurs in the view as
\* often as it occurs among the stored expenses when it passes both, and not
\* at all when it fails one; so the view is as long as the number of stored
\* expenses passing both.
C1_FilterExact ==
    LET passes(e) == /\ (filterCategory = "All" \/ e.category = filterCategory)
                     /\ (filterDate = NoDate \/ e.date = filterDate)
    IN  /\ \A i \in 1..Len(filteredExpenses) :
              /\ \E j \in 1..Len(expenses) : expenses[j] = filteredExpenses[i]
              /\ passes(filteredExpenses[i])
        /\ \A j \in 1..Len(expenses) :
              passes(expenses[j]) =>
                  Count(filteredExpenses, expenses[j]) = Count(expenses, expenses[j])
        /\ Len(filteredExpenses) = Cardinality({j \in 1..Len(expenses) : passes(expenses[j])})

\* Both filters are set, one stored expense passes them and another does not.
C1_Witness ==
    /\ filterCategory # "All"
    /\ filterDate # NoDate
    /\ Len(filteredExpenses) >= 1
    /\ Len(filteredExpenses) < Len(expenses)

\* The sort key of an expense under a sort option.
SortKey(e, sort) == IF sort = SortOptionAmount THEN e.amount ELSE e.date

\* C2: the filtered view is in descending order of the sort key (the date
\* under Latest, the amount under Amount); the expenses of one key are in the
\* order they have in the stored list; sorting the view again changes nothing.
C2_SortedStable ==
    LET F == filteredExpenses
        passes(e) == /\ (filterCategory = "All" \/ e.category = filterCategory)
                     /\ (filterDate = NoDate \/ e.date = filterDate)
    IN  /\ \A i, j \in 1..Len(F) : i < j => SortKey(F[i], sortOption) >= SortKey(F[j], sortOption)
        /\ \A i \in 1..Len(F) :
              SelectSeq(F, LAMBDA e : SortKey(e, sortOption) = SortKey(F[i], sortOption))
                = SelectSeq(expenses, LAMBDA e : passes(e) /\ SortKey(e, sortOption) = SortKey(F[i], sortOption))
        /\ ArraySort(F, sortOption) = F

\* Two different expenses of the same key are in the view.
C2_Witness ==
    /\ Len(filteredExpenses) >= 2
    /\ filteredExpenses[1] # filteredExpenses[2]
    /\ SortKey(filteredExpenses[1], sortOption) = SortKey(filteredExpenses[2], sortOption)

\* C3: the category totals of the view have one entry for each category of
\* the view and no other, in the order in which the categories first occur;
\* each value is the sum of the amounts of that category, and the values add
\* up to the sum of all amounts.
C3_CategoryTotals ==
    LET L == filteredExpenses
        P == pieChartData
    IN  /\ {P[i].name : i \in 1..Len(P)} = {L[j].category : j \in 1..Len(L)}
        /\ Len(P) = Cardinality({L[j].category : j \in 1..Len(L)})
        /\ \A i, j \in 1..Len(P) :
              i < j => FirstOccurrence(L, P[i].name) < FirstOccurrence(L, P[j].name)
        /\ \A i \in 1..Len(P) :
              P[i].value = SumAmounts(SelectSeq(L, LAMBDA e : e.category = P[i].name))
        /\ SumValues(P) = SumAmounts(L)

\* The view holds two expenses of one category, so that a total is a sum.
C3_Witness ==
    /\ Len(filteredExpenses) >= 2
    /\ Len(pieChartData) = 1
    /\ pieChartData[1].value = filteredExpenses[1].amount + filteredExpenses[2].amount

-----------------------------------------------------------------------------
(* Properties of the weekly trend and of the report ranges, stated for the *)
(* calendar of the user's time zone                                        *)

\* C4: the weekly series computed at the current instant has 7 buckets; the
\* key of bucket k is the date of the local calendar day 7 - k days before
\* today, so the keys are consecutive days, the last one today's local date
\* and the first one the date 6 days earlier.
C4_WeekOfLocalDays ==
    LET W == WeeklyTrend(expenses, tz, now)
    IN  /\ Len(W) = 7
        /\ \A k \in 1..7 : W[k].date = DayString(LocalDay(tz, now) - (7 - k))

\* C5: the range of this-month starts on the first day of the current local
\* calendar month and ends on the current local date.
C5_ThisMonthRange ==
    LET today == CivilFromDays(LocalDay(tz, now))
    IN  /\ StartStr("this-month", tz, now) = DateString(<<today[1], today[2], 1>>)
        /\ EndStr("this-month", tz, now) = DateString(today)

\* C6: the range of last-month starts on the first day of the calendar month
\* before the current local one and ends on the last day of that month, the
\* day before the first day of the current month.
C6_LastMonthRange ==
    LET today     == CivilFromDays(LocalDay(tz, now))
        prevYear  == IF today[2] = 1 THEN today[1] - 1 ELSE today[1]
        prevMonth == IF today[2] = 1 THEN 12 ELSE today[2] - 1
    IN  /\ StartStr("last-month", tz, now) = DateString(<<prevYear, prevMonth, 1>>)
        /\ EndStr("last-month", tz, now) = DayString(DaysFromCivil(today[1], today[2], 1) - 1)

\* The local calendar day of the most recent Sunday on or before today
\* (1970-01-01 was a Thursday).
ThisSunday(z, t) == LocalDay(z, t) - ((LocalDay(z, t) + 4) % 7)

\* C7: the range of this-week starts on the most recent Sunday on or before
\* the local today and ends on the local today; it spans 1 to 7 days.
C7_ThisWeekRange ==
    LET startStr == StartStr("this-week", tz, now)
        endStr   == EndStr("this-week", tz, now)
    IN  /\ startStr = DayString(ThisSunday(tz, now))
        /\ endStr = DayString(LocalDay(tz, now))
        /\ DayOfString(endStr) - DayOfString(startStr) + 1 \in 1..7

\* C8: the range of last-week ends on the Saturday before this week's Sunday
\* and starts on the Sunday 6 days earlier; it spans 7 days and ends the day
\* before the range of this-week starts.
C8_LastWeekRange ==
    LET startStr == StartStr("last-week", tz, now)
        endStr   == EndStr("last-week", tz, now)
    IN  /\ endStr = DayString(ThisSunday(tz, now) - 1)
        /\ startStr = DayString(ThisSunday(tz, now) - 7)
        /\ DayOfString(endStr) - DayOfString(startStr) + 1 = 7
        /\ DayOfString(endStr) + 1 = DayOfString(StartStr("this-week", tz, now))

\* C9: generating the report of a period leaves the stored expenses as they
\* are, and the report then holds exactly the stored expenses dated within
\* the range computed for the period, both ends included, each as often as
\* it is stored, in descending order of date.
C9_ReportExact ==
    [][ \A p \in Periods :
          generateReport(p) =>
            LET R        == report'.expenses
                startStr == StartStr(p, tz, now)
                endStr   == EndStr(p, tz, now)
                within(e) == startStr <= e.date /\ e.date <= endStr
            IN  /\ expenses' = expenses
                /\ report'.present
                /\ \A i \in 1..Len(R) :
                      /\ \E j \in 1..Len(expenses) : expenses[j] = R[i]
                      /\ within(R[i])
                /\ \A j \in 1..Len(expenses) :
                      within(expenses[j]) => Count(R, expenses[j]) = Count(expenses, expenses[j])
                /\ Len(R) = Cardinality({j \in 1..Len(expenses) : within(expenses[j])})
                /\ \A i, j \in 1..Len(R) : i < j => R[i].date >= R[j].date
      ]_vars

\* A report is shown that holds one stored expense, dated on the last day of
\* its range, and leaves another out.
C9_Witness ==
    /\ report.present
    /\ Len(report.expenses) >= 1
    /\ Len(report.expenses) < Len(expenses)
    /\ \E p \in Periods : report.title = Title(p, tz, now)
                          /\ report.expenses[1].date = EndStr(p, tz, now)

\* C10: the amount of each bucket of the weekly series is the sum of the
\* amounts of all stored expenses dated on the bucket's key, and a change of
\* the category filter, the date filter or the sort option leaves the series
\* as it is.
C10_BucketSums ==
    /\ [](\A k \in 1..Len(weeklyTrendData) :
            weeklyTrendData[k].amount
              = SumAmounts(SelectSeq(expenses, LAMBDA e : e.date = weeklyTrendData[k].date)))
    /\ [][ (filterCategory' # filterCategory \/ filterDate' # filterDate \/ sortOption' # sortOption)
             => weeklyTrendData' = weeklyTrendData ]_vars

\* C11: after any sequence of add, edit and delete operations no two
\* expenses of the stored list have the same identifier, also when two
\* expenses are created within the same reading of the clock.
C11_UniqueIds ==
    \A i, j \in 1..Len(expenses) : i # j => expenses[i].id # expenses[j].id

\* The value the store holds under a key is v: the item parses, to v.
Holds(store, key, v) == ~ParseThrows(store[key]) /\ JSONparse(store[key]) = v

\* C12: after every add, edit or delete of an expense, and after every change
\* of the profile or of the theme, the value the store holds under the key of
\* the record is the value in memory.
C12_WriteThrough ==
    [][ /\ ( \/ SubmitNew({0}, {"Food"}, {100})
             \/ SubmitEdit({0}, {"Transport"}, {100})
             \/ \E id \in Ids(expenses) : handleDeleteExpense(id, TRUE) )
           => Holds(localStorage', "expenses", expenses')
        /\ SubmitProfile({"Asha"}, {NoPicture}) => Holds(localStorage', "user", user')
        /\ toggleTheme => Holds(localStorage', "theme", theme')
      ]_vars

\* C13: every stored expense has an amount above 0, a date of the form
\* YYYY-MM-DD (here: a date string that names a day of the calendar), one of
\* the 7 categories and one of the 3 payment methods; and while the amount of
\* the form is missing or not positive no step changes the stored list.
C13_ValidExpenses ==
    /\ [](\A i \in 1..Len(expenses) :
            /\ expenses[i].amount > 0
            /\ expenses[i].date # NoDate
            /\ IsValidDateString(expenses[i].date)
            /\ \E k \in 1..Len(CATEGORIES) : CATEGORIES[k] = expenses[i].category
            /\ \E k \in 1..Len(PAYMENT_METHODS) : PAYMENT_METHODS[k] = expenses[i].paymentMethod)
    /\ [][ (isExpenseModalOpen /\ Number(formData.amount) <= 0)
             => (expenses' = expenses /\ localStorage' = localStorage) ]_vars

\* The record extracted from an image, its date and its amount put right in
\* the form, is stored in front of another expense, and the form is open
\* once more, with no amount.
C13_Witness ==
    /\ Len(expenses) = 2
    /\ expenses[1].category = "Other"
    /\ expenses[1].amount = 75
    /\ expenses[2].paymentMethod = "UPI"
    /\ isExpenseModalOpen
    /\ formData.amount = <<>>

\* The sequence s without its k-th element.
Without(s, k) == [i \in 1..(Len(s) - 1) |-> IF i < k THEN s[i] ELSE s[i + 1]]

\* C14: the submission of the form of a stored expense replaces exactly that
\* one record by the submitted one: the list keeps its length, the record
\* its place and its identifier, and every other record stays as it was.
C14_EditReplacesOne ==
    [][ (handleSubmit /\ FormValid(formData) /\ currentExpense.id # NoId)
          => /\ Len(expenses') = Len(expenses)
             /\ \E k \in 1..Len(expenses) :
                   /\ expenses[k] = currentExpense
                   /\ expenses'[k].id = currentExpense.id
                   /\ expenses'[k] = [ id            |-> currentExpense.id,
                                       date          |-> formData.date,
                                       category      |-> formData.category,
                                       amount        |-> Number(formData.amount),
                                       description   |-> formData.description,
                                       paymentMethod |-> formData.paymentMethod ]
                   /\ \A j \in 1..Len(expenses) : j # k => expenses'[j] = expenses[j]
      ]_vars

\* C15: a declined deletion leaves the list and the store as they were; a
\* confirmed one removes exactly the requested expense and keeps all others
\* in their order, so that the views, all computed from the list, no longer
\* hold it.
C15_DeleteRemovesOne ==
    [][ \A id \in Ids(expenses) :
          /\ handleDeleteExpense(id, FALSE)
               => (expenses' = expenses /\ localStorage' = localStorage)
          /\ (handleDeleteExpense(id, TRUE) /\ expenses' # expenses)
               => \E k \in 1..Len(expenses) :
                     /\ expenses[k].id = id
                     /\ expenses' = Without(expenses, k)
      ]_vars

\* C16: the result of a tips request that ends while a newer request is in
\* flight, for which the modal was opened again, is ignored: it does not
\* become the content of the modal and does not clear its loading indicator.
C16_StaleTipsIgnored ==
    [][ \A n \in tipsRequests, outcome \in TipsOutcomes :
          (TipsDone(n, outcome) /\ isTipsModalOpen /\ \E m \in tipsRequests : m > n)
            => (tips' = tips /\ isTipsLoading' = isTipsLoading)
      ]_vars

\* C17: getSavingTips never rejects and resolves to a text.  Without an API
\* key the text is the unavailable message whatever the list, and no remote
\* call is made; with a key and no expense of the month it is the "add
\* expenses" message, and no remote call is made; otherwise the remote model
\* is called once, and the text is its advice, or the apology when the call
\* fails.  The caller shows the text and clears the loading indicator.
C17_TipsAlwaysText ==
    /\ [](~apiKey => remoteCalls = 0)
    /\ [][ handleGenerateTips =>
             LET list == MonthlyExpenses(expenses, tz, now)
             IN  /\ ~apiKey
                      => (tips' = TipsUnavailable /\ ~isTipsLoading' /\ remoteCalls' = remoteCalls)
                 /\ (apiKey /\ list = <<>>)
                      => (tips' = TipsNoExpenses /\ ~isTipsLoading' /\ remoteCalls' = remoteCalls)
                 /\ (apiKey /\ list # <<>>)
                      => (remoteCalls' = remoteCalls + 1 /\ isTipsLoading')
         ]_vars
    /\ [][ \A n \in tipsRequests, outcome \in TipsOutcomes :
             TipsDone(n, outcome)
               => /\ tips' = (IF outcome = RemoteError THEN TipsApology ELSE outcome.text)
                  /\ ~isTipsLoading'
                  /\ remoteCalls' = remoteCalls
         ]_vars

\* The one remote call made has failed, and the modal shows the apology.
C17_Witness ==
    /\ apiKey
    /\ isTipsModalOpen
    /\ ~isTipsLoading
    /\ tips = TipsApology
    /\ remoteCalls = 1
    /\ Len(expenses) >= 1

\* Whether x is an element of the tuple s (Array.prototype.includes).
Includes(s, x) == \E i \in 1..Len(s) : s[i] = x

C19_ExtractFailures ==
    /\ [](~apiKey => remoteCalls = 0 /\ ~isExpenseModalOpen)
    /\ [][ (ReaderDone(TRUE) /\ ~apiKey)
             => /\ alertMessage' = ExtractUnavailable
                /\ remoteCalls' = remoteCalls
                /\ UNCHANGED <<isExpenseModalOpen, currentExpense, formData, expenses, localStorage>>
         ]_vars
    /\ [][ \A outcome \in {RemoteError, ResponseNoJSON, ResponseNull} :
             ExtractDone(outcome)
               => /\ alertMessage' = ExtractFailed
                  /\ ~isExpenseModalOpen'
                  /\ UNCHANGED <<isExpenseModalOpen, currentExpense, formData, expenses, localStorage>>
         ]_vars

\* A scan has failed behind its remote call: the message is shown, no form
\* is open and the stored expense is still there.
C19_Witness ==
    /\ alertMessage = ExtractFailed
    /\ ~isExpenseModalOpen
    /\ ~isScanning
    /\ remoteCalls >= 1
    /\ Len(expenses) = 1

\* The value in memory v is the one the item gives at startup: the default
\* for an item that is absent or does not parse, the parsed value otherwise.
StartsFrom(item, v, default) ==
    IF item = Absent \/ ParseThrows(item) THEN v = default ELSE v = JSONparse(item)

\* C20: in every state the page may start in, each of the three records in
\* memory is its default (the empty list, the profile "Guest" without a
\* picture, the Light theme) when its stored item is absent or cannot be
\* parsed, and the parsed value when the item parses.
C20_StartupDefaults ==
    InitStore =>
        /\ StartsFrom(localStorage.expenses, expenses, <<>>)
        /\ StartsFrom(localStorage.user, user, [name |-> "Guest", profilePicture |-> NoPicture])
        /\ StartsFrom(localStorage.theme, theme, ThemeLight)

\* The page has started over a store whose expense item does not parse,
\* whose profile parses and whose theme is absent.
C20_Witness ==
    /\ InitStore
    /\ localStorage.expenses = Garbage
    /\ expenses = <<>>
    /\ localStorage.user = JSONText(StoredUser, 0)
    /\ user = StoredUser
    /\ localStorage.theme = Absent
    /\ theme = ThemeLight

-----------------------------------------------------------------------------
(* Properties of the setters of one render, checked under SpecSetters *)

\* The list after an add of the record x, an edit to x or a delete of the
\* id k, applied to the list s.
Added(s, x) == <<x>> \o s

Edited(s, x) == [i \in 1..Len(s) |-> IF s[i].id = x.id THEN x ELSE s[i]]

Removed(s, k) == SelectSeq(s, LAMBDA e : e.id # k)

\* C21: no update of the expense list is lost.  Every add, edit or delete
\* issued through the handlers of the render on screen, also one issued
\* before React has rendered the list an earlier one left, is applied to the
\* list in memory as the earlier ones left it, and the store then holds that
\* same list.
C21_NoLostUpdate ==
    [][ /\ \A id \in {NoId} \cup Ids(renderedExpenses), a \in {40, 100, 250} :
              LET x == [ id |-> id, date |-> getFormattedDate(now), category |-> "Food",
                         amount |-> a, description |-> "Lunch", paymentMethod |-> "UPI" ]
              IN  SaveCall(x) =>
                      /\ expenses' = IF id # NoId THEN Edited(expenses, x)
                                     ELSE Added(expenses, [x EXCEPT !.id = ToISOString(now)])
                      /\ Holds(localStorage', "expenses", expenses')
        /\ \A k \in Ids(renderedExpenses) :
              DeleteCall(k) =>
                  /\ expenses' = Removed(expenses, k)
                  /\ Holds(localStorage', "expenses", expenses')
      ]_vars

-----------------------------------------------------------------------------
(* Property of the scanning overlay, checked under SpecScanFair *)

\* C22: every image scan that has started ends.  handleImageUpload with a
\* file shows the scanning overlay, and whatever comes of the scan (the file
\* cannot be read, the extraction fails, the extraction succeeds) the overlay
\* is cleared in the end; while it shows, the expense form changes in one
\* case only: the extraction has succeeded, and the form opens with the
\* extracted record.
C22_ScanEnds ==
    /\ [][ handleImageUpload(TRUE) => (isScanning' /\ ~isExpenseModalOpen') ]_vars
    /\ (isScanning ~> ~isScanning)
    /\ [][ (isScanning /\ formVars' # formVars)
             => \E outcome \in ScanOutcomes :
                    /\ outcome.kind = "object"
                    /\ ExtractDone(outcome)
                    /\ isExpenseModalOpen'
                    /\ currentExpense' = ExtractResult(outcome, CATEGORIES, now).value
                    /\ ~isScanning'
         ]_vars

\* After a file that could not be read, whose alert still stands, a second
\* scan has succeeded: the overlay is gone and the form shows the record.
C22_Witness ==
    /\ ~isScanning
    /\ scanRequest = "none"
    /\ alertMessage = SplitOfNull
    /\ remoteCalls = 1
    /\ isExpenseModalOpen
    /\ currentExpense.category = "Food"
    /\ currentExpense.amount = 250

====
